---- MODULE Spec2Model ----
(***************************************************************************)
(* Background-removal HTTP adapters: bg-removal-server.py (eager rembg     *)
(* session), bg-removal-server-v2.py (lazy rembg session) and              *)
(* withoutbg-server.py (lazy withoutBG model).  One process runs one       *)
(* variant on a single asyncio event loop: a handler runs without          *)
(* interruption between two of its await points.                           *)
(***************************************************************************)
EXTENDS Integers, Sequences, FiniteSets, TLC

VARIABLES variant, session, ctorCalls, ctorOk, waiting, last

vars == <<variant, session, ctorCalls, ctorOk, waiting, last>>

(***************************************************************************)
(* Bounds of the model.                                                    *)
(***************************************************************************)
MaxWaiting == 2        \* handlers that may be suspended at an await at once
MaxCtorFailures == 1   \* constructor calls that may raise in one process

Variants == {"v1", "v2", "withoutbg"}
Lazy == {"v2", "withoutbg"}

\* The global `session` / `model`: None, or the session built by the n-th
\* constructor call.
None == 0

(***************************************************************************)
(* Request data                                                            *)
(***************************************************************************)
MaxUploadBytes == 10 * 1024 * 1024

Sizes == {1024, MaxUploadBytes, MaxUploadBytes + 1}
Filenames == {"a.jpg"}

\* Optional[List[int]]: None or a list.
NoColor == [some |-> FALSE, v |-> <<>>]
ColorOf(s) == [some |-> TRUE, v |-> s]
BgColors == {NoColor, ColorOf(<<>>), ColorOf(<<255, 255>>),
             ColorOf(<<10, 20, 30>>), ColorOf(<<10, 20, 30, 128>>)}

\* Python truthiness of `request.bgcolor`.
Truthy(bgcolor) == bgcolor.some /\ Len(bgcolor.v) > 0

(***************************************************************************)
(* Images.  A bitmap has a mode, a size and one pixel tuple per position.  *)
(***************************************************************************)
NoImage == [mode |-> "none", size |-> <<0, 0>>, px |-> <<>>]

\* The bitmap every valid input decodes to in this model: two pixels.
InputImage == [mode |-> "RGB", size |-> <<2, 1>>,
               px |-> << <<200, 100, 50>>, <<0, 0, 255>> >>]

Alphas == {0, 128, 255}
Masks == [1..Len(InputImage.px) -> Alphas]
OutputModes == {"RGBA", "RGB"}

\* Image.open(BytesIO(data)): raises on bytes that are no image.
Image_open(valid) == IF valid THEN InputImage ELSE NoImage

\* Image.new('RGBA', size, color)
Image_new(size, color) ==
    [mode |-> "RGBA", size |-> size,
     px |-> [i \in 1..(size[1] * size[2]) |-> color]]

\* image.convert(mode) between RGB and RGBA.
convert(img, mode) ==
    IF img.mode = mode THEN img
    ELSE IF mode = "RGBA"
         THEN [img EXCEPT !.mode = "RGBA",
                          !.px = [i \in 1..Len(img.px) |-> img.px[i] \o <<255>>]]
         ELSE [img EXCEPT !.mode = "RGB",
                          !.px = [i \in 1..Len(img.px) |-> SubSeq(img.px[i], 1, 3)]]

ShiftForDiv255(a) == (((a \div 256) + a) \div 256)

\* One pixel of Image.alpha_composite(dst image, src image): src over dst,
\* in the library's 8-bit integer arithmetic (7 bits of extra precision).
CompositePixel(dst, src) ==
    IF src[4] = 0 THEN dst
    ELSE LET blend == dst[4] * (255 - src[4])
             outa255 == src[4] * 255 + blend
             coef1 == (src[4] * 255 * 255 * 128) \div outa255
             coef2 == 255 * 128 - coef1
             ch(i) == (ShiftForDiv255(src[i] * coef1 + dst[i] * coef2 + 128 * 128)
                        \div 128) % 256
         IN  <<ch(1), ch(2), ch(3), ShiftForDiv255(outa255 + 128) % 256>>

alpha_composite_swapped(im1, im2) ==
    [im1 EXCEPT !.px = [i \in 1..Len(im1.px) |-> CompositePixel(im2.px[i], im1.px[i])]]

\* Image.alpha_composite(im1, im2): im2 over im1.
alpha_composite(im1, im2) ==
    [im1 EXCEPT !.px = [i \in 1..Len(im1.px) |-> CompositePixel(im1.px[i], im2.px[i])]]

\* image.save(buffer, format=...): the JPEG encoder refuses a bitmap with alpha.
SaveRaises(img, format) == format = "JPEG" /\ img.mode = "RGBA"

(***************************************************************************)
(* Exceptions and responses                                                *)
(***************************************************************************)
NoExc == [raised |-> FALSE, http |-> FALSE, status_code |-> 0, text |-> ""]

\* A library exception (subclass of Exception) with its message.
Error(text) == [raised |-> TRUE, http |-> FALSE, status_code |-> 0, text |-> text]

\* HTTPException(status_code=..., detail=...): also a subclass of Exception.
HTTPException(status_code, detail) ==
    [raised |-> TRUE, http |-> TRUE, status_code |-> status_code, text |-> detail]

\* str(e)
StrExc(e) == IF e.http THEN ToString(e.status_code) \o ": " \o e.text ELSE e.text

NoResponse ==
    [status |-> 0, detail |-> "", media_type |-> "", disposition |-> "",
     format |-> "", content |-> NoImage, json |-> ""]

\* Response(content=..., media_type=..., headers=...): status 200.
Response(format, content, media_type, disposition) ==
    [status |-> 200, detail |-> "", media_type |-> media_type,
     disposition |-> disposition, format |-> format, content |-> content,
     json |-> ""]

\* A handler returning a dict: status 200 with a JSON body.
JsonResponse(json) == [NoResponse EXCEPT !.status = 200, !.json = json]

\* What the framework sends for an HTTPException that leaves the handler.
ErrorResponse(status_code, detail) ==
    [NoResponse EXCEPT !.status = status_code, !.detail = detail]

ProcessingFailed == "Processing failed: "

\* What reaches the client when exception e leaves the handler uncaught:
\* an HTTPException keeps its status, anything else is a bare 500.
Propagate(e) ==
    IF e.http THEN ErrorResponse(e.status_code, e.text)
    ELSE ErrorResponse(500, "Internal Server Error")

\* except Exception as e:
\*     raise HTTPException(status_code=500, detail=f"Processing failed: {str(e)}")
ExceptClause(e) == ErrorResponse(500, ProcessingFailed \o StrExc(e))

(***************************************************************************)
(* A handler run: the values its body has computed so far.                 *)
(***************************************************************************)
Start(sess, calls) ==
    [exc |-> NoExc, failedAt |-> "none", resp |-> NoResponse,
     session |-> sess, calls |-> calls, ctor |-> "none", used |-> None,
     fetches |-> 0, invoked |-> 0, modelOk |-> FALSE,
     fg |-> NoImage, out |-> NoImage, composited |-> FALSE, saves |-> 0]

Raise(o, stage, e) == [o EXCEPT !.exc = e, !.failedAt = stage]

\* if len(input_data) > 10 * 1024 * 1024: raise HTTPException(400, ...)
SizeCheck_inclusive(o, size) ==
    IF o.exc.raised THEN o
    ELSE IF size >= MaxUploadBytes
         THEN Raise(o, "size", HTTPException(400, "File too large (max 10MB)"))
         ELSE o

SizeCheck(o, size) ==
    IF o.exc.raised THEN o
    ELSE IF size > MaxUploadBytes
         THEN Raise(o, "size", HTTPException(400, "File too large (max 10MB)"))
         ELSE o

\* The remote fetch tried a second time when it fails.
Fetch_retry(o, fetch) ==
    IF o.exc.raised THEN o
    ELSE IF fetch.error
         THEN Raise([o EXCEPT !.fetches = @ + 2], "fetch", Error("connect error"))
         ELSE IF ~(fetch.status_code >= 200 /\ fetch.status_code <= 299)
              THEN Raise([o EXCEPT !.fetches = @ + 2], "status",
                         Error(ToString(fetch.status_code) \o " error response"))
              ELSE [o EXCEPT !.fetches = @ + 1]

\* response = await client.get(image_url); response.raise_for_status()
Fetch(o, fetch) ==
    IF o.exc.raised THEN o
    ELSE LET f == [o EXCEPT !.fetches = @ + 1]
         IN  IF fetch.error THEN Raise(f, "fetch", Error("connect error"))
             ELSE IF ~(fetch.status_code >= 200 /\ fetch.status_code <= 299)
                  THEN Raise(f, "status", Error(ToString(fetch.status_code) \o " error response"))
                  ELSE f

\* image_bytes = base64.b64decode(request.image_base64)
b64decode(o, payload) ==
    IF o.exc.raised THEN o
    ELSE IF payload = "badpadding" THEN Raise(o, "b64", Error("Incorrect padding"))
         ELSE o

\* image = Image.open(BytesIO(input_data))
OpenStep(o, valid) ==
    IF o.exc.raised THEN o
    ELSE IF Image_open(valid) = NoImage
         THEN Raise(o, "open", Error("cannot identify image file"))
         ELSE o

(***************************************************************************)
(* The model library.  Its outcomes are not decided by the adapter: the    *)
(* constructor may raise, the invocation may raise, and the returned       *)
(* bitmap has the input's size, some mode and some alpha mask.             *)
(***************************************************************************)
ModelOutput(img, mode, mask) ==
    IF mode = "RGBA"
    THEN [img EXCEPT !.mode = "RGBA",
                     !.px = [i \in 1..Len(img.px) |-> img.px[i] \o <<mask[i]>>]]
    ELSE img

\* The lazy initialisation with its `is None` test left out.
get_model_unguarded(o, ctorRaises) ==
    IF o.exc.raised THEN o
    ELSE IF ctorRaises
         THEN Raise([o EXCEPT !.calls = @ + 1, !.ctor = "raised"],
                    "ctor", Error("model load failed"))
         ELSE [o EXCEPT !.calls = @ + 1, !.ctor = "ok", !.session = o.calls + 1]

\* The lazy initialisation assigning the global before the constructor has
\* returned: a raising call leaves a session behind.
get_model_assigns_first(o, ctorRaises) ==
    IF o.exc.raised THEN o
    ELSE IF o.session = None
         THEN IF ctorRaises
              THEN Raise([o EXCEPT !.calls = @ + 1, !.ctor = "raised", !.session = o.calls + 1],
                         "ctor", Error("model load failed"))
              ELSE [o EXCEPT !.calls = @ + 1, !.ctor = "ok", !.session = o.calls + 1]
         ELSE o

\* The lazy initialisation run before the input has been validated.
get_model_first(o, ctorRaises) ==
    IF o.session = None
    THEN IF ctorRaises
         THEN Raise([o EXCEPT !.calls = @ + 1, !.ctor = "raised"],
                    "ctor", Error("model load failed"))
         ELSE [o EXCEPT !.calls = @ + 1, !.ctor = "ok", !.session = o.calls + 1]
    ELSE o

\* global session
\* if session is None: session = new_session("u2netp")
\* (withoutbg-server.py: get_model()).  No await: one step of the event loop.
get_model(o, ctorRaises) ==
    IF o.exc.raised THEN o
    ELSE IF o.session = None
         THEN IF ctorRaises
              THEN Raise([o EXCEPT !.calls = @ + 1, !.ctor = "raised"],
                         "ctor", Error("model load failed"))
              ELSE [o EXCEPT !.calls = @ + 1, !.ctor = "ok", !.session = o.calls + 1]
         ELSE o

\* output = remove(input, session=session) / bg_model.remove_background(image)
\* Bytes that are no image make the library raise.
Invoke(o, valid, ext) ==
    IF o.exc.raised THEN o
    ELSE LET i == [o EXCEPT !.invoked = @ + 1, !.used = o.session]
         IN  IF ext.modelRaises \/ ~valid
             THEN Raise(i, "invoke", Error("model error"))
             ELSE [i EXCEPT !.modelOk = TRUE,
                            !.fg = ModelOutput(Image_open(valid), ext.mode, ext.mask)]

(***************************************************************************)
(* Compositing and encoding (URL and base64 endpoints)                     *)
(***************************************************************************)
\* if request.bgcolor and len(request.bgcolor) >= 3: ... alpha_composite ...
Composite(o, bgcolor) ==
    IF o.exc.raised THEN o
    ELSE IF Truthy(bgcolor) /\ Len(bgcolor.v) >= 3
         THEN LET bg_color == SubSeq(bgcolor.v, 1, 3)
                  alpha == IF Len(bgcolor.v) > 3 THEN bgcolor.v[4] ELSE 255
                  output_image == convert(o.fg, "RGBA")
                  background == Image_new(output_image.size, bg_color \o <<alpha>>)
              IN  [o EXCEPT !.out = convert(alpha_composite(background, output_image), "RGB"),
                            !.composited = TRUE]
         ELSE [o EXCEPT !.out = o.fg]

FormatOf_png(bgcolor) == "PNG"

\* format_type = "JPEG" if request.bgcolor else "PNG"
FormatOf(bgcolor) == IF Truthy(bgcolor) THEN "JPEG" ELSE "PNG"

MediaTypeOf_png(bgcolor) == "image/png"

\* media_type = "image/jpeg" if request.bgcolor else "image/png"
MediaTypeOf(bgcolor) == IF Truthy(bgcolor) THEN "image/jpeg" ELSE "image/png"

\* output_image.save(output_buffer, format=...); return Response(...)
Save(o, format, media_type, disposition) ==
    IF o.exc.raised THEN o
    ELSE LET e == [o EXCEPT !.saves = @ + 1]
         IN  IF SaveRaises(o.out, format)
             THEN Raise(e, "encode", Error("cannot write mode " \o o.out.mode \o " as " \o format))
             ELSE [e EXCEPT !.resp = Response(format, o.out, media_type, disposition)]

\* return Response(content=output_data, ...): the library's own PNG bytes.
ReturnBytes(o, media_type, disposition) ==
    IF o.exc.raised THEN o
    ELSE [o EXCEPT !.out = o.fg, !.resp = Response("PNG", o.fg, media_type, disposition)]

\* The except clause dropping the shared session when a run fails.
TryExcept_reset(o) ==
    IF o.exc.raised THEN [o EXCEPT !.resp = ExceptClause(o.exc), !.session = None] ELSE o

\* The handler's try/except without its except clause.
TryExcept_none(o) ==
    IF o.exc.raised THEN [o EXCEPT !.resp = Propagate(o.exc)] ELSE o

\* try: <body> except Exception as e: raise HTTPException(500, ...)
TryExcept(o) ==
    IF o.exc.raised THEN [o EXCEPT !.resp = ExceptClause(o.exc)] ELSE o

Disposition(filename) == "inline; filename=\"processed_" \o filename \o "\""

(***************************************************************************)
(* The handlers, from their last await to the response.  v is the variant, *)
(* sess and calls the shared session and the constructor-call count on     *)
(* entry, ext the outcomes of the model library for this run.              *)
(***************************************************************************)
\* GET /health
health_loading(v, sess, calls, ext) ==
    [get_model(Start(sess, calls), ext.ctorRaises)
        EXCEPT !.resp = JsonResponse("status ok")]

health(v, sess, calls, ext) ==
    [Start(sess, calls) EXCEPT !.resp =
        JsonResponse(IF v = "withoutbg"
                     THEN (IF sess # None THEN "status ok, model_loaded true"
                                          ELSE "status ok, model_loaded false")
                     ELSE "status ok")]

\* GET /
root(v, sess, calls) ==
    [Start(sess, calls) EXCEPT !.resp = JsonResponse("status healthy")]

\* POST /api/remove-bg, after `input_data = await file.read()`
remove_background(v, sess, calls, filename, data, ext) ==
    LET o1 == SizeCheck(Start(sess, calls), data.size)
        o2 == IF v = "withoutbg" THEN OpenStep(o1, data.valid) ELSE o1
        o3 == IF v \in Lazy THEN get_model(o2, ext.ctorRaises) ELSE o2
        o4 == Invoke(o3, data.valid, ext)
        o5 == IF v = "withoutbg"
              THEN Save([o4 EXCEPT !.out = o4.fg], "PNG", "image/png", Disposition(filename))
              ELSE ReturnBytes(o4, "image/png", Disposition(filename))
    IN  TryExcept(o5)

\* POST /api/remove-bg-from-url, after `response = await client.get(image_url)`
remove_background_from_url(v, sess, calls, bgcolor, fetch, ext) ==
    LET o1 == Fetch(Start(sess, calls), fetch)
        o2 == IF v \in Lazy THEN OpenStep(o1, fetch.valid) ELSE o1
        o3 == IF v \in Lazy THEN get_model(o2, ext.ctorRaises) ELSE o2
        o4 == Invoke(o3, fetch.valid, ext)
        o5 == IF v \in Lazy
              THEN Save(Composite(o4, bgcolor), FormatOf(bgcolor), MediaTypeOf(bgcolor), "")
              ELSE ReturnBytes(o4, "image/png", "")
    IN  TryExcept(o5)

\* POST /api/remove-bg-base64 (no await in the handler)
remove_background_from_base64(v, sess, calls, bgcolor, payload, ext) ==
    LET o1 == b64decode(Start(sess, calls), payload)
        o2 == OpenStep(o1, payload = "image")
        o3 == get_model(o2, ext.ctorRaises)
        o4 == Invoke(o3, payload = "image", ext)
        o5 == Save(Composite(o4, bgcolor), FormatOf(bgcolor), MediaTypeOf(bgcolor), "")
    IN  TryExcept(o5)

(***************************************************************************)
(* The process                                                             *)
(***************************************************************************)
\* The handlers suspended at an await, counted per endpoint: a suspended
\* handler holds nothing the others can see, so two of one endpoint are alike.
Awaits == {"upload", "url"}
NumWaiting == waiting["upload"] + waiting["url"]

NoInput ==
    [size |-> 0, valid |-> FALSE, filename |-> "", bgcolor |-> NoColor,
     libraryRaises |-> FALSE]

\* The model library behaving: it returns the bitmap with every pixel kept.
ExtOk ==
    [ctorRaises |-> FALSE, modelRaises |-> FALSE, mode |-> "RGBA",
     mask |-> [i \in 1..Len(InputImage.px) |-> 255]]

\* The outcomes the model library may produce for one run: the constructor
\* raises (only a run that finds no session calls it, and the number of
\* raising calls is bounded), the invocation raises, or it returns a bitmap.
Exts ==
    {[ExtOk EXCEPT !.ctorRaises = TRUE] :
        x \in (IF session = None /\ ctorCalls - ctorOk < MaxCtorFailures THEN {1} ELSE {})}
    \cup {[ExtOk EXCEPT !.modelRaises = TRUE]}
    \cup {[ExtOk EXCEPT !.mode = "RGB"]}
    \cup {[ExtOk EXCEPT !.mask = m] : m \in Masks}

\* What `await file.read()` returns.
Datas == [size : Sizes, valid : BOOLEAN]

\* What `await client.get(image_url)` returns or raises.
Fetches ==
    {[error |-> TRUE, status_code |-> 0, valid |-> FALSE],
     [error |-> FALSE, status_code |-> 404, valid |-> FALSE],
     [error |-> FALSE, status_code |-> 200, valid |-> FALSE],
     [error |-> FALSE, status_code |-> 200, valid |-> TRUE]}

Payloads == {"image", "notimage", "badpadding"}

\* The request that completed last: what it was given, the shared state it
\* found, and its run.
Completed(kind, in, o) ==
    [kind |-> kind, in |-> in, before |-> session, callsBefore |-> ctorCalls, run |-> o]

\* Module import.  bg-removal-server.py builds its session here (a raise
\* ends the process before it serves); the other two start with None.
Init ==
    /\ variant \in Variants
    /\ session = IF variant = "v1" THEN 1 ELSE None
    /\ ctorCalls = IF variant = "v1" THEN 1 ELSE 0
    /\ ctorOk = IF variant = "v1" THEN 1 ELSE 0
    /\ waiting = [k \in Awaits |-> 0]
    /\ last = Completed("none", NoInput, Start(session, ctorCalls))

\* The shared state after a handler run.
Finish(kind, in, o) ==
    /\ session' = o.session
    /\ ctorCalls' = o.calls
    /\ ctorOk' = ctorOk + (IF o.ctor = "ok" THEN 1 ELSE 0)
    /\ last' = Completed(kind, in, o)
    /\ UNCHANGED variant

Health ==
    /\ Finish("health", NoInput, health(variant, session, ctorCalls, ExtOk))
    /\ UNCHANGED waiting

Root ==
    /\ Finish("root", NoInput, root(variant, session, ctorCalls))
    /\ UNCHANGED waiting

\* The upload handler up to `await file.read()`.
BeginUpload ==
    /\ NumWaiting < MaxWaiting
    /\ waiting' = [waiting EXCEPT !["upload"] = @ + 1]
    /\ UNCHANGED <<variant, session, ctorCalls, ctorOk, last>>

\* The upload handler from `await file.read()` to its response.
ResumeUpload ==
    /\ waiting["upload"] > 0
    /\ \E f \in Filenames, data \in Datas, ext \in Exts :
          /\ (data.size > MaxUploadBytes => ext = ExtOk)
          /\ Finish("upload", [NoInput EXCEPT !.size = data.size, !.valid = data.valid,
                                              !.filename = f,
                                              !.libraryRaises = ext.ctorRaises \/ ext.modelRaises],
                    remove_background(variant, session, ctorCalls, f, data, ext))
    /\ waiting' = [waiting EXCEPT !["upload"] = @ - 1]

\* The URL handler up to `await client.get(image_url)`.
BeginUrl ==
    /\ NumWaiting < MaxWaiting
    /\ waiting' = [waiting EXCEPT !["url"] = @ + 1]
    /\ UNCHANGED <<variant, session, ctorCalls, ctorOk, last>>

\* The URL handler from `await client.get(image_url)` to its response.
\* The request body is read only here; bg-removal-server.py takes no bgcolor.
ResumeUrl ==
    /\ waiting["url"] > 0
    /\ \E c \in (IF variant \in Lazy THEN BgColors ELSE {NoColor}),
          fetch \in Fetches, ext \in Exts :
          /\ (~fetch.valid => ext = ExtOk)
          /\ Finish("url", [NoInput EXCEPT !.valid = fetch.valid, !.bgcolor = c,
                                           !.libraryRaises = ext.ctorRaises \/ ext.modelRaises],
                    remove_background_from_url(variant, session, ctorCalls, c, fetch, ext))
    /\ waiting' = [waiting EXCEPT !["url"] = @ - 1]

\* The base64 handler: no await, one step of the event loop.
\* bg-removal-server.py has no base64 endpoint.
Base64 ==
    /\ variant \in Lazy
    /\ \E c \in BgColors, payload \in Payloads, ext \in Exts :
          /\ (payload # "image" => ext = ExtOk)
          /\ Finish("base64", [NoInput EXCEPT !.valid = (payload = "image"), !.bgcolor = c,
                                              !.libraryRaises = ext.ctorRaises \/ ext.modelRaises],
                    remove_background_from_base64(variant, session, ctorCalls, c, payload, ext))
    /\ UNCHANGED waiting

Next ==
    \/ Health
    \/ Root
    \/ BeginUpload
    \/ ResumeUpload
    \/ BeginUrl
    \/ ResumeUrl
    \/ Base64

Spec == Init /\ [][Next]_vars

(***************************************************************************)
(* Properties.  `last` is the request that completed last: last.in what it *)
(* was given, last.before the shared session it found, last.run its run.   *)
(***************************************************************************)
Posts == {"upload", "url", "base64"}
IngestStages == {"size", "fetch", "status", "b64", "open"}

\* C1: an upload longer than 10 MiB is answered with status 400 and the
\* message "File too large", never with 500.
C1_OversizeIs400 ==
    (last.kind = "upload" /\ last.in.size > 10 * 1024 * 1024)
        => /\ last.run.resp.status = 400
           /\ last.run.resp.detail = "File too large (max 10MB)"

\* C2: on the POST endpoints a failure other than the size check is answered
\* with status 500 and a detail beginning "Processing failed", and carries
\* no image.
C2_FailureIs500 ==
    (last.kind \in Posts /\ last.run.failedAt \notin {"none", "size"})
        => /\ last.run.resp.status = 500
           /\ last.run.resp.detail = "Processing failed: " \o StrExc(last.run.exc)
           /\ last.run.resp.media_type = ""
           /\ last.run.resp.content = NoImage

\* C2 witness: the remote server answered 404 and the client got the 500.
C2_Witness ==
    /\ last.kind = "url"
    /\ last.run.failedAt = "status"
    /\ last.run.resp.status = 500
    /\ last.run.resp.detail = "Processing failed: 404 error response"

C4_CallsStayOne ==
    (variant \in Lazy /\ session # None) => ctorCalls = 1

\* C4 amended: in the lazy variants, once the session exists no step calls
\* the constructor or replaces the session (the count of calls and the count
\* of successful constructions no longer change), and a request that
\* invokes the model uses that session.
C4_NoCallAfterSuccess ==
    [][(variant \in Lazy /\ session # None)
          => /\ ctorCalls' = ctorCalls
             /\ ctorOk' = ctorOk /\ ctorOk = 1
             /\ session' = session
             /\ (last'.run.invoked > 0 => last'.run.used = session)]_vars

\* C4 witness: a request that found the session in place and ran the model
\* on it.
C4_Witness ==
    /\ variant \in Lazy
    /\ last.kind \in Posts
    /\ last.before # None
    /\ last.run.modelOk
    /\ last.run.used = last.before
    /\ last.run.ctor = "none"

\* C5: under every interleaving of the event loop the session is
\* successfully constructed at most once per process.
C5_OneConstruction ==
    /\ ctorOk <= 1
    /\ (session = None <=> ctorOk = 0)

\* C5 witness: a request constructed the session while another handler was
\* suspended at its await.
C5_Witness ==
    /\ variant \in Lazy
    /\ last.run.ctor = "ok"
    /\ ctorOk = 1
    /\ NumWaiting >= 1

C7_HealthIs200 ==
    /\ ENABLED Health
    /\ last.kind \in {"health", "root"}
          => /\ last.run.resp.status = 200
             /\ last.run.session = last.before
             /\ session = last.before
             /\ last.run.calls = last.callsBefore
             /\ ctorCalls = last.callsBefore
             /\ last.run.ctor = "none"
             /\ last.run.invoked = 0

\* C7 witness: /health answered 200 with no session, after a request whose
\* constructor call raised.
C7_Witness ==
    /\ last.kind = "health"
    /\ last.run.resp.status = 200
    /\ session = None
    /\ ctorCalls > 0

\* C8: with bgcolor = [r, g, b] the bitmap handed to the encoder has no
\* alpha channel and the size of the model output; where the model output
\* was fully transparent it is exactly (r, g, b), where it was fully opaque
\* it keeps the foreground colour.
C8_Composite ==
    (/\ last.kind \in {"url", "base64"}
     /\ last.in.bgcolor.some /\ Len(last.in.bgcolor.v) = 3
     /\ last.run.modelOk)
        => LET fg == last.run.fg
               out == last.run.out
               a(i) == IF fg.mode = "RGBA" THEN fg.px[i][4] ELSE 255
           IN  /\ out.mode = "RGB"
               /\ out.size = fg.size
               /\ Len(out.px) = Len(fg.px)
               /\ \A i \in 1..Len(fg.px) :
                     /\ Len(out.px[i]) = 3
                     /\ a(i) = 0 => out.px[i] = last.in.bgcolor.v
                     /\ a(i) = 255 => out.px[i] = SubSeq(fg.px[i], 1, 3)

\* C8 witness: a model output with one transparent and one opaque pixel was
\* composited on (10, 20, 30) and sent.
C8_Witness ==
    /\ last.kind = "base64"
    /\ last.in.bgcolor = ColorOf(<<10, 20, 30>>)
    /\ last.run.fg.mode = "RGBA"
    /\ last.run.fg.px[1][4] = 0
    /\ last.run.fg.px[2][4] = 255
    /\ last.run.out.px = << <<10, 20, 30>>, <<0, 0, 255>> >>
    /\ last.run.resp.status = 200

C10_IngestionFirst ==
    (last.run.failedAt \in {"size", "fetch", "status", "b64", "open"})
        => /\ last.run.ctor = "none"
           /\ last.run.invoked = 0
           /\ last.run.session = last.before
           /\ session = last.before
           /\ ctorCalls = last.callsBefore

\* C10 witness: bytes that are no image were rejected while no session
\* existed, and none was built.
C10_Witness ==
    /\ last.kind = "base64"
    /\ last.run.failedAt = "open"
    /\ last.before = None
    /\ session = None
    /\ last.run.resp.status = 500

\* C11: once the shared variable holds a session, no step resets it to None
\* or replaces it by another session, the steps of requests that end in an
\* error included.
C11_SessionKept ==
    [][session # None => session' = session]_vars

\* C11 witness: a request found the session, failed at the model invocation
\* or at the encoding, and the session is still the one it found.
C11_Witness ==
    /\ variant \in Lazy
    /\ last.before # None
    /\ last.run.failedAt \in {"invoke", "encode"}
    /\ last.run.resp.status = 500
    /\ session = last.before

\* C12: there are no retries.  A request performs at most one remote fetch
\* (only the URL endpoint fetches) and at most one model invocation, ends
\* with one response, a 200 image or an error, and after the step that
\* failed performs no fetch, constructor, model or encode step.
C12_NoRetry ==
    last.kind \in Posts
        => LET r == last.run
           IN  /\ r.fetches <= 1 /\ r.invoked <= 1 /\ r.saves <= 1
               /\ r.fetches = (IF last.kind = "url" THEN 1 ELSE 0)
               /\ r.calls - last.callsBefore <= 1
               /\ r.resp.status \in {200, 400, 500}
               /\ r.resp.status = 200 <=> r.failedAt = "none"
               /\ r.resp.status = 200 <=> r.resp.content # NoImage
               /\ r.failedAt \in IngestStages
                     => r.calls = last.callsBefore /\ r.invoked = 0 /\ r.saves = 0
               /\ r.failedAt = "ctor" => r.invoked = 0 /\ r.saves = 0
               /\ r.failedAt = "invoke" => r.invoked = 1 /\ r.saves = 0 /\ ~r.modelOk
               /\ r.failedAt = "encode" => r.invoked = 1 /\ r.saves = 1

\* C12 witness: the remote fetch failed; the request fetched once, went no
\* further and was answered with the error.
C12_Witness ==
    /\ last.kind = "url"
    /\ last.run.failedAt = "fetch"
    /\ last.run.fetches = 1
    /\ last.run.invoked = 0
    /\ last.run.resp.status = 500

\* C13: in the lazy variants a constructor call that raises leaves the
\* shared variable None and the request is answered with status 500; a
\* request that reaches the model step while the variable is None calls the
\* constructor (again); the successful constructions stay at most 1 while
\* the calls are the successful ones plus the raising ones.
C13_CtorRetried ==
    variant \in Lazy
        => /\ last.run.ctor = "raised"
                 => /\ last.before = None
                    /\ last.run.session = None
                    /\ session = None
                    /\ last.run.resp.status = 500
                    /\ last.run.invoked = 0
                    /\ ctorCalls = last.callsBefore + 1
           /\ (/\ last.kind \in Posts
               /\ last.before = None
               /\ last.run.failedAt \notin IngestStages)
                 => /\ last.run.ctor \in {"ok", "raised"}
                    /\ ctorCalls = last.callsBefore + 1
           /\ ctorOk <= 1
           /\ ctorOk = (IF session = None THEN 0 ELSE 1)
           /\ ctorCalls >= ctorOk

\* C13 witness: a constructor call raised, the next request called the
\* constructor again and built the session: two calls, one construction.
C13_Witness ==
    /\ variant \in Lazy
    /\ last.before = None
    /\ last.callsBefore = 1
    /\ last.run.ctor = "ok"
    /\ session # None
    /\ ctorCalls = 2
    /\ ctorOk = 1

====
